---- MODULE Spec2Model ----
(***************************************************************************)
(* Robust kernel density estimators (src/libs/kde_lib.py) and the          *)
(* Density_model object that dispatches to them (src/libs/exp_lib.py).     *)
(*                                                                         *)
(* Numbers.  Samples are one-dimensional (d = 1) with integer coordinates. *)
(* A float is a fixed-point integer with Scale units to 1.0; NaN and Inf   *)
(* are the two non-finite floats numpy produces by 0/0, x/0 and sqrt of a  *)
(* negative number.  An array of shape (n,) or (n,1) is a sequence.        *)
(***************************************************************************)
EXTENDS Integers, Sequences, FiniteSets, TLC

VARIABLES
    self,   \* the Density_model object: its attributes, "model" included
    call,   \* the last method call on self and how it ended
    mom,    \* the frame of a kde / mom_kde call: arguments, locals, result
    ir      \* the frame of an irls call: arguments, locals, position

vars == <<self, call, mom, ir>>

----------------------------------------------------------------------------
(* Bounds of the model *)

MaxN == 3        \* largest sample size n
MaxCoord == 2    \* coordinates are 0..MaxCoord
MaxMc == 2       \* number of Monte Carlo points drawn (n_mc)
MaxIt == 3       \* largest iteration cap max_it passed to irls

Coords == 0..MaxCoord
Bandwidths == {1, 2}

----------------------------------------------------------------------------
(* Floats *)

Scale == 10^3
NaN == 0 - 2 * 10^9
Inf == 2 * 10^9
None == <<>>
auto == 0

IsFinite(x) == x # NaN /\ x # Inf

Abs(x) == IF x < 0 THEN 0 - x ELSE x

Min(x, y) == IF x <= y THEN x ELSE y

\* x / y on floats
FDiv(x, y) ==
    IF x = NaN \/ y = NaN THEN NaN
    ELSE IF y = Inf THEN (IF x = Inf THEN NaN ELSE 0)
    ELSE IF x = Inf THEN Inf
    ELSE IF y = 0 THEN (IF x = 0 THEN NaN ELSE Inf)
    ELSE (x * Scale) \div y

\* the integer square root, floor(sqrt(v)) for v >= 0, by bisection:
\* lo * lo <= v < hi * hi throughout
RECURSIVE Bisect(_, _, _)
Bisect(v, lo, hi) ==
    IF hi - lo <= 1 THEN lo
    ELSE LET mid == (lo + hi) \div 2
         IN  IF mid * mid <= v THEN Bisect(v, mid, hi) ELSE Bisect(v, lo, mid)

ISqrt(v) == IF v < 2^16 THEN Bisect(v, 0, 2^8) ELSE Bisect(v, 2^8, 2^15)

RECURSIVE SumSeq(_)
SumSeq(s) == IF s = <<>> THEN 0 ELSE Head(s) + SumSeq(Tail(s))

AnyNaN(s) == \E i \in 1..Len(s) : s[i] = NaN

\* np.sum over floats: NaN if any element is NaN
FSum(s) == IF AnyNaN(s) THEN NaN ELSE SumSeq(s)

RECURSIVE Insert(_, _)
Insert(x, s) ==
    IF s = <<>> THEN <<x>>
    ELSE IF x <= Head(s) THEN <<x>> \o s
    ELSE <<Head(s)>> \o Insert(x, Tail(s))

RECURSIVE Sorted(_)
Sorted(s) == IF s = <<>> THEN <<>> ELSE Insert(Head(s), Sorted(Tail(s)))

\* np.median of a one-dimensional array of n >= 1 floats
Median(s) ==
    LET n == Len(s)
        t == Sorted(s)
    IN  IF AnyNaN(s) THEN NaN
        ELSE IF n % 2 = 1 THEN t[(n + 1) \div 2]
        ELSE (t[n \div 2] + t[n \div 2 + 1]) \div 2

\* np.percentile(s, q), linear interpolation between order statistics
Percentile(s, q) ==
    LET n == Len(s)
        t == Sorted(s)
        lo == (q * (n - 1)) \div 100
        fr == (q * (n - 1)) % 100
        hi == IF lo + 1 < n THEN lo + 1 ELSE lo
    IN  IF AnyNaN(s) THEN NaN
        ELSE t[lo + 1] + ((t[hi + 1] - t[lo + 1]) * fr) \div 100

\* np.median(z, axis=0) of a list z of equally long vectors
MedianAxis0(z) ==
    [j \in 1..Len(z[1]) |-> Median([k \in 1..Len(z) |-> z[k][j]])]

\* np.mean
Mean(s) == IF AnyNaN(s) THEN NaN ELSE SumSeq(s) \div Len(s)

\* Python slice s[lo:hi] of 0-based row indices of an n-row array
SliceIdx(lo, hi, n) ==
    LET top == Min(hi, n)
    IN  IF top <= lo THEN <<>> ELSE [i \in 1..(top - lo) |-> lo + i - 1]

Rows(X, idx) == [i \in 1..Len(idx) |-> X[idx[i] + 1]]

----------------------------------------------------------------------------
(* The Gaussian kernel *)

\* exp(-d2 / (2 h^2)) / (2 pi h^2)^(1/2) in Scale units, d2 the squared distance
gaussian_kernel(d2, h) ==
    IF h = 1 THEN
        CASE d2 = 0 -> 399 [] d2 = 1 -> 242 [] d2 = 4 -> 54 [] d2 = 9 -> 4
          [] OTHER -> 0
    ELSE
        CASE d2 = 0 -> 199 [] d2 = 1 -> 176 [] d2 = 4 -> 121 [] d2 = 9 -> 65
          [] d2 = 16 -> 27 [] d2 = 25 -> 9 [] d2 = 36 -> 2 [] OTHER -> 0

\* KernelDensity(bandwidth=h).fit(values): the fitted estimator
KernelDensity(values, h) == [data |-> values, bandwidth |-> h]

\* np.exp(kde_fit.score_samples(X)): the mean of the kernels at each row of X
score_samples(kde_fit, X) ==
    [j \in 1..Len(X) |->
        SumSeq([i \in 1..Len(kde_fit.data) |->
            gaussian_kernel((X[j] - kde_fit.data[i]) * (X[j] - kde_fit.data[i]),
                            kde_fit.bandwidth)])
        \div Len(kde_fit.data)]

\* rbf_kernel(A, B, gamma) * (2 pi h^2)^(-d/2): the matrix of kernel values
rbf_kernel(A, B, h) ==
    [i \in 1..Len(A) |-> [j \in 1..Len(B) |->
        gaussian_kernel((A[i] - B[j]) * (A[i] - B[j]), h)]]

----------------------------------------------------------------------------
(* kde, area_density, area_MC_mom, mom_kde (kde_lib.py) *)

\* kde(X_data, X_plot, h): the plain kernel density estimate at X_plot
kde(X_data, X_plot, h) == score_samples(KernelDensity(X_data, h), X_plot)

\* np.trapz(y, x) along the one axis of a one-dimensional grid
trapz(y, x) ==
    SumSeq([i \in 1..(Len(y) - 1) |-> (x[i + 1] - x[i]) * (y[i] + y[i + 1])])
    \div 2

\* area_density(z, grid): 1 without a grid, else the quadrature of z over it
area_density(z, grid) ==
    IF grid = None THEN Scale ELSE trapz(z, grid[1])

\* the densities of the fitted blocks at the points X, one vector per block
BlockDensities(KDE_K, X) ==
    [k \in 1..Len(KDE_K) |-> score_samples(KDE_K[k], X)]

\* area_MC_mom(X, model_momkde) with distribution="kde", h=1; x_mc are the
\* points kde.sample(n_mc) drew
area_MC_mom(X, model_momkde, x_mc) ==
    LET kde_s == KernelDensity(X, 1)
        p_mc == score_samples(kde_s, x_mc)
        res == MedianAxis0(BlockDensities(model_momkde, x_mc))
        wres == [j \in 1..Len(x_mc) |-> FDiv(res[j], p_mc[j])]
    IN  Mean(wres)

\* scipy.spatial.distance.euclidean(p1, p2)
euclidean(p1, p2) ==
    ISqrt(SumSeq([j \in 1..Len(p1) |-> (p1[j] - p2[j]) * (p1[j] - p2[j])]))

\* sum(map(lambda p2: distance(p1, p2), z))
TotalDistance(p1, z) == SumSeq([k \in 1..Len(z) |-> euclidean(p1, z[k])])

\* a variant of PyMinByKey that keeps the largest key (max for min)
RECURSIVE PyMaxByKey(_, _)
PyMaxByKey(pairs, best) ==
    IF pairs = <<>> THEN best
    ELSE IF Head(pairs)[2] > best[2] THEN PyMaxByKey(Tail(pairs), Head(pairs))
    ELSE PyMaxByKey(Tail(pairs), best)

\* min(pairs, key=lambda x: x[1]): Python keeps the first smallest element
RECURSIVE PyMinByKey(_, _)
PyMinByKey(pairs, best) ==
    IF pairs = <<>> THEN best
    ELSE IF Head(pairs)[2] < best[2] THEN PyMinByKey(Tail(pairs), Head(pairs))
    ELSE PyMinByKey(Tail(pairs), best)

\* the geometric branch of mom_kde: the block vector of least total distance
GeometricMedian(z) ==
    LET pairs == [k \in 1..Len(z) |-> <<z[k], TotalDistance(z[k], z)>>]
    IN  PyMinByKey(Tail(pairs), Head(pairs))[1]

\* K = int(2 * n_samples * outliers_fraction) + 1; the fraction is in tenths
AutoK(n_samples, outliers_fraction) ==
    (2 * n_samples * outliers_fraction) \div 10 + 1

\* a variant of BlockSize that rounds the block size up
BlockSizeCeil(n_samples, K) == (n_samples + K - 1) \div K

\* int(n_samples / K)
BlockSize(n_samples, K) == n_samples \div K

\* a variant of BlockIdx that slices from row 1 on, as if rows counted from 1
BlockIdxFromOne(k, n_samples, K) ==
    SliceIdx(k * BlockSize(n_samples, K) + 1,
             (k + 1) * BlockSize(n_samples, K) + 1, n_samples)

\* the row indices of X_shuffle[k*int(n/K) : (k+1)*int(n/K), :], k from 0
BlockIdx(k, n_samples, K) ==
    SliceIdx(k * BlockSize(n_samples, K), (k + 1) * BlockSize(n_samples, K),
             n_samples)

\* X_shuffle = np.array(X_data); np.random.shuffle(X_shuffle): the copy,
\* reordered by the permutation perm the random source drew
Shuffle(X_data, perm) == [i \in 1..Len(X_data) |-> X_data[perm[i]]]

\* what the shuffle leaves in the caller's array
AfterShuffle(X_data, X_shuffle) == X_data

\* a variant of Normalize that always asks area_density for the area
NormalizeByGridOnly(z, X_data, KDE_K, grid, norm, x_mc) ==
    IF ~norm THEN
        [area |-> Scale, area_by |-> "none", printed |-> <<>>, z |-> z]
    ELSE
        [area |-> area_density(z, grid), area_by |-> "area_density",
         printed |-> IF grid = None
                     THEN <<"WARNING: no grid ==> return area = 1">> ELSE <<>>,
         z |-> [j \in 1..Len(z) |-> FDiv(z[j], area_density(z, grid))]]

\* the normalization step of mom_kde on the aggregate z
Normalize(z, X_data, KDE_K, grid, norm, x_mc) ==
    IF ~norm THEN
        [area |-> Scale, area_by |-> "none", printed |-> <<>>, z |-> z]
    ELSE
        LET by == IF grid = None THEN "area_MC_mom" ELSE "area_density"
            area == IF grid = None THEN area_MC_mom(X_data, KDE_K, x_mc)
                    ELSE area_density(z, grid)
        IN  [area |-> area, area_by |-> by,
             printed |-> IF grid = None
                         THEN <<"no grid specified, computing area with MC">>
                         ELSE <<>>,
             z |-> [j \in 1..Len(z) |-> FDiv(z[j], area)]]

\* the aggregation step of mom_kde on the list z of block densities
Aggregate(z, median) ==
    IF median = "pointwise" THEN MedianAxis0(z) ELSE GeometricMedian(z)

\* mom_kde(X_data, X_plot, h, outliers_fraction, grid, K, median=, norm=,
\* return_model=True) with h_std=False; X_shuffle is the shuffled copy and x_mc
\* the Monte Carlo points, as the random source draws them.  The result is the
\* frame at return or at the raise.
mom_kde(X_data, X_plot, h, outliers_fraction, grid, K0, median, norm, X_shuffle, x_mc) ==
    LET n_samples == Len(X_data)
        K == IF K0 = auto THEN AutoK(n_samples, outliers_fraction) ELSE K0
        blocks == [k \in 1..K |-> BlockIdx(k - 1, n_samples, K)]
        base == [X_data |-> AfterShuffle(X_data, X_shuffle), X_plot |-> X_plot,
                 h |-> h, grid |-> grid, median |-> median, norm |-> norm,
                 K |-> K, X_shuffle |-> X_shuffle, x_mc |-> x_mc]
        failed(blk) == [raised |-> "ValueError", blocks |-> blk, KDE_K |-> <<>>,
                        z_blocks |-> <<>>, z_agg |-> <<>>, area |-> Scale,
                        area_by |-> "none", printed |-> <<>>, z |-> None]
    IN  IF \E k \in 1..K : blocks[k] = <<>> THEN
            \* KernelDensity.fit rejects an array of zero samples
            base @@ failed(blocks)
        ELSE
            LET KDE_K == [k \in 1..K |->
                            KernelDensity(Rows(X_shuffle, blocks[k]), h)]
                z == BlockDensities(KDE_K, X_plot)
            IN  IF median \notin {"pointwise", "geometric"} THEN
                    base @@ [failed(blocks) EXCEPT !.KDE_K = KDE_K, !.z_blocks = z]
                ELSE IF norm /\ grid # None /\ Len(grid[1]) # Len(X_plot) THEN
                    \* z.reshape(shapes) rejects a grid of another size
                    base @@ [failed(blocks) EXCEPT !.KDE_K = KDE_K, !.z_blocks = z,
                                 !.z_agg = Aggregate(z, median)]
                ELSE
                    LET agg == Aggregate(z, median)
                        nz == Normalize(agg, X_data, KDE_K, grid, norm, x_mc)
                    IN  base @@ [raised |-> "", blocks |-> blocks, KDE_K |-> KDE_K,
                                 z_blocks |-> z, z_agg |-> agg, area |-> nz.area,
                                 area_by |-> nz.area_by, printed |-> nz.printed,
                                 z |-> nz.z]

----------------------------------------------------------------------------
(* Inputs *)

SeqsUpTo(S, n) == UNION {[1..k -> S] : k \in 1..n}

NonDecreasing(s) == \A i \in 1..(Len(s) - 1) : s[i] <= s[i + 1]

Increasing(s) == \A i \in 1..(Len(s) - 1) : s[i] < s[i + 1]

\* samples of 1..MaxN rows, in every row order
Samples == SeqsUpTo(Coords, MaxN)

\* samples up to row order (mom_kde shuffles the rows, kde sums over them)
SortedSamples == {s \in Samples : NonDecreasing(s)}

\* evaluation sets: the points of a one-dimensional grid over the coordinates
Plots == {<<0, MaxCoord>>, [i \in 1..(MaxCoord + 1) |-> i - 1]}

\* outlier fractions in tenths, within [0, 1)
Fractions == {2, 5}

Medians == {"pointwise", "geometric", "mean"}

Perms(n) == {p \in [1..n -> 1..n] : \A i, j \in 1..n : p[i] = p[j] => i = j}

\* every outcome of shuffling a copy of X
Shuffles(X) == {Shuffle(X, p) : p \in Perms(Len(X))}

\* the points kde.sample(n_mc) can draw, up to their order: draws from a
\* continuous density are distinct, and the density is positive at each
McPoints(X) ==
    {s \in [1..MaxMc -> Coords] :
        /\ Increasing(s)
        /\ \A j \in 1..MaxMc : score_samples(KernelDensity(X, 1), s)[j] > 0}

Idle == [pc |-> "idle"]

----------------------------------------------------------------------------
(* SpecMom: kde and mom_kde applied to every input *)

MomArgs ==
    {[pc |-> "args", X_data |-> X, X_plot |-> P, h |-> hh, outliers_fraction |-> f,
      grid |-> g, K0 |-> k, median |-> m, norm |-> nm] :
        X \in SortedSamples, P \in Plots, hh \in Bandwidths, f \in Fractions,
        g \in {None}, k \in {auto} \cup (1..MaxN), m \in Medians, nm \in BOOLEAN}
    \cup
    {[pc |-> "args", X_data |-> X, X_plot |-> P, h |-> hh, outliers_fraction |-> f,
      grid |-> <<P>>, K0 |-> k, median |-> m, norm |-> nm] :
        X \in SortedSamples, P \in Plots, hh \in Bandwidths, f \in Fractions,
        k \in {auto} \cup (1..MaxN), m \in Medians, nm \in BOOLEAN}

\* outliers_fraction is read only for K="auto"; the median argument is only
\* compared with the two rules, after the blocks are fitted
InitMom ==
    /\ mom \in {a \in MomArgs :
                  /\ a.K0 # auto => a.outliers_fraction = 2
                  /\ a.median = "mean" => a.K0 = 1 /\ a.h = 1}
    /\ self = Idle /\ call = Idle /\ ir = Idle

CallMomKde ==
    /\ mom.pc = "args"
    /\ \E X_shuffle \in Shuffles(mom.X_data) :
       \E x_mc \in (IF mom.norm /\ mom.grid = None THEN McPoints(mom.X_data)
                    ELSE {<<>>}) :
          mom' = [pc |-> "done", fn |-> "mom_kde", K0 |-> mom.K0,
                  outliers_fraction |-> mom.outliers_fraction, X_arg |-> mom.X_data]
                 @@ mom_kde(mom.X_data, mom.X_plot, mom.h, mom.outliers_fraction,
                            mom.grid, mom.K0, mom.median, mom.norm, X_shuffle, x_mc)
    /\ UNCHANGED <<self, call, ir>>

CallKde ==
    /\ mom.pc = "args"
    /\ mom' = [pc |-> "done", fn |-> "kde", X_data |-> mom.X_data,
               X_plot |-> mom.X_plot, h |-> mom.h,
               z |-> kde(mom.X_data, mom.X_plot, mom.h)]
    /\ UNCHANGED <<self, call, ir>>

NextMom == CallMomKde \/ CallKde

SpecMom == InitMom /\ [][NextMom]_vars

MomDone == mom.pc = "done" /\ mom.fn = "mom_kde"

MomReturned == MomDone /\ mom.raised = ""

FDivVec(z, area) == [j \in 1..Len(z) |-> FDiv(z[j], area)]

\* C3 as stated: with K=1 and median='pointwise', and norm left at its default
\* True, mom_kde returns the density of the plain kde at every evaluation point.
C3_SameAsKdeWithNorm ==
    (MomReturned /\ mom.K0 = 1 /\ mom.median = "pointwise" /\ mom.norm)
        => mom.z = kde(mom.X_data, mom.X_plot, mom.h)

\* C3 amended: with K=1 and median='pointwise' the aggregate of mom_kde is the
\* plain kde density; it is returned as it is with norm=False, and divided by
\* the estimated area with norm=True.
C3_SameAsKdeUpToArea ==
    (MomReturned /\ mom.K0 = 1 /\ mom.median = "pointwise")
        => /\ mom.z_agg = kde(mom.X_data, mom.X_plot, mom.h)
           /\ ~mom.norm => mom.z = kde(mom.X_data, mom.X_plot, mom.h)
           /\ mom.norm => mom.z = FDivVec(kde(mom.X_data, mom.X_plot, mom.h), mom.area)

C3_Witness ==
    /\ MomReturned /\ mom.K0 = 1 /\ mom.median = "pointwise" /\ ~mom.norm
    /\ Len(mom.X_data) >= 2 /\ mom.X_shuffle # mom.X_data
    /\ Len(mom.X_plot) >= 2

\* C4: the geometric aggregate (before normalization) is one of the K block
\* density vectors, one of least total Euclidean distance to the K vectors;
\* K identical block vectors give exactly that vector.
C4_GeometricIsMedoid ==
    (MomReturned /\ mom.median = "geometric")
        => /\ \E k \in 1..mom.K :
                /\ mom.z_agg = mom.z_blocks[k]
                /\ \A j \in 1..mom.K :
                      TotalDistance(mom.z_blocks[k], mom.z_blocks)
                        <= TotalDistance(mom.z_blocks[j], mom.z_blocks)
           /\ (\A j \in 1..mom.K : mom.z_blocks[j] = mom.z_blocks[1])
                 => mom.z_agg = mom.z_blocks[1]

C4_Witness ==
    /\ MomReturned /\ mom.median = "geometric" /\ mom.K >= 3
    /\ mom.z_agg # mom.z_blocks[1]
    /\ TotalDistance(mom.z_agg, mom.z_blocks)
         < TotalDistance(mom.z_blocks[1], mom.z_blocks)

\* the rows of the shuffled copy that no block holds
TailRows ==
    {i \in 0..(Len(mom.X_shuffle) - 1) :
        \A k \in 1..Len(mom.blocks) :
            \A r \in 1..Len(mom.blocks[k]) : mom.blocks[k][r] # i}

\* C5: for 1 <= K <= n the shuffled copy is cut into exactly K blocks of
\* floor(n/K) consecutive rows, block k being rows k*floor(n/K) ..
\* (k+1)*floor(n/K)-1; no row is in two blocks, n - K*floor(n/K) rows are in
\* none, and the caller's sample is not reordered.
C5_Partition ==
    (MomDone /\ 1 <= mom.K /\ mom.K <= Len(mom.X_arg))
        => LET n == Len(mom.X_arg)
               b == n \div mom.K
           IN  /\ Len(mom.blocks) = mom.K
               /\ \A k \in 1..mom.K :
                     /\ Len(mom.blocks[k]) = b
                     /\ \A r \in 1..b : mom.blocks[k][r] = (k - 1) * b + (r - 1)
               /\ \A k1, k2 \in 1..mom.K : \A r1, r2 \in 1..b :
                     mom.blocks[k1][r1] = mom.blocks[k2][r2] => k1 = k2 /\ r1 = r2
               /\ Cardinality(TailRows) = n - mom.K * b
               /\ \A k \in 1..Len(mom.KDE_K) :
                     mom.KDE_K[k].data = Rows(mom.X_shuffle, mom.blocks[k])
               /\ mom.X_data = mom.X_arg
               /\ \E p \in Perms(n) : mom.X_shuffle = Shuffle(mom.X_arg, p)

C5_Witness ==
    /\ MomReturned /\ mom.K >= 2 /\ mom.K <= Len(mom.X_arg)
    /\ Len(mom.X_arg) > mom.K * (Len(mom.X_arg) \div mom.K)
    /\ mom.X_shuffle # mom.X_arg

\* C6: the normalization path follows (norm, grid) and an absent grid makes
\* no call fail: norm and a grid -> divided by the grid quadrature; norm and
\* no grid -> divided by the Monte Carlo area, with a warning; no norm -> the
\* aggregate is returned undivided.
C6_NormalizationPath ==
    MomDone
        => /\ mom.raised # "" =>
                \/ Len(mom.X_arg) \div mom.K = 0
                \/ mom.median \notin {"pointwise", "geometric"}
           /\ (mom.raised = "" /\ mom.norm /\ mom.grid # None) =>
                /\ mom.area_by = "area_density"
                /\ mom.area = trapz(mom.z_agg, mom.grid[1])
                /\ mom.z = FDivVec(mom.z_agg, mom.area)
                /\ mom.printed = <<>>
           /\ (mom.raised = "" /\ mom.norm /\ mom.grid = None) =>
                /\ mom.area_by = "area_MC_mom"
                /\ mom.area = area_MC_mom(mom.X_arg, mom.KDE_K, mom.x_mc)
                /\ mom.z = FDivVec(mom.z_agg, mom.area)
                /\ mom.printed = <<"no grid specified, computing area with MC">>
           /\ (mom.raised = "" /\ ~mom.norm) =>
                /\ mom.area_by = "none"
                /\ mom.z = mom.z_agg

C6_Witness ==
    /\ MomReturned /\ mom.norm /\ mom.grid = None
    /\ mom.area_by = "area_MC_mom" /\ IsFinite(mom.area) /\ mom.area # Scale
    /\ mom.z # mom.z_agg

\* C10: when mom_kde normalizes by Monte Carlo, the area it divides by is the
\* importance-weighted mean, over the Monte Carlo points, of the aggregate the
\* median argument selects (pointwise median, or the geometric block vector).
C10_McAreaOfReturnedAggregate ==
    (MomReturned /\ mom.area_by = "area_MC_mom")
        => LET p_mc == score_samples(KernelDensity(mom.X_arg, 1), mom.x_mc)
               agg == Aggregate(BlockDensities(mom.KDE_K, mom.x_mc), mom.median)
           IN  mom.area = Mean([j \in 1..Len(mom.x_mc) |-> FDiv(agg[j], p_mc[j])])

\* C11 as stated: with K="auto" mom_kde takes K = floor(2*n*fraction) + 1
\* blocks (the fraction in tenths), and for every sample size n >= 1 and every
\* fraction in [0, 1) the block size floor(n/K) is at least 1: every block has
\* rows, and no estimator is fitted on zero samples.
C11_AutoKBlocksNonEmpty ==
    (MomDone /\ mom.K0 = auto)
        => /\ mom.K = (2 * Len(mom.X_arg) * mom.outliers_fraction) \div 10 + 1
           /\ Len(mom.X_arg) \div mom.K >= 1
           /\ \A k \in 1..mom.K : mom.blocks[k] # <<>>

----------------------------------------------------------------------------
(* rho, loss, psi, phi, irls (kde_lib.py) *)

\* x[x == 0] = 10e-6 in phi: the smallest positive float of the model
Eps == 1

\* comparisons of floats: every comparison with NaN is False
FLt(x, y) == x # NaN /\ y # NaN /\ x < y

FLe(x, y) == x # NaN /\ y # NaN /\ x <= y

\* np.minimum(x, a): NaN if either is NaN
FMin(x, y) == IF x = NaN \/ y = NaN THEN NaN ELSE Min(x, y)

\* rho raises for typ = 'square' (and any unknown typ): L is never assigned
RhoRaises(typ) == typ \notin {"huber", "hampel", "abs"}

\* rho(x, typ, a, b, c): L / x.shape[0]
rho(x, typ, a, b, c) ==
    LET n == Len(x)
        L == CASE typ = "huber" ->
                   LET in1_t == SelectSeq(x, LAMBDA v : FLe(v, a))
                       in2_t == SelectSeq(x, LAMBDA v : FLt(a, v))
                   IN  SumSeq([i \in 1..Len(in1_t) |->
                                 (in1_t[i] * in1_t[i]) \div (2 * Scale)])
                       + SumSeq([i \in 1..Len(in2_t) |->
                                 (in2_t[i] * a) \div Scale - (a * a) \div (2 * Scale)])
               [] typ = "hampel" ->
                   LET in1_t == SelectSeq(x, LAMBDA v : FLt(v, a))
                       in2_t == SelectSeq(x, LAMBDA v : FLe(a, v) /\ FLt(v, b))
                       in3_t == SelectSeq(x, LAMBDA v : FLe(b, v) /\ FLt(v, c))
                       in4_n == Len(SelectSeq(x, LAMBDA v : FLe(c, v)))
                   IN  SumSeq([i \in 1..Len(in1_t) |->
                                 (in1_t[i] * in1_t[i]) \div (2 * Scale)])
                       + SumSeq([i \in 1..Len(in2_t) |->
                                 (a * in2_t[i]) \div Scale - (a * a) \div (2 * Scale)])
                       + SumSeq([i \in 1..Len(in3_t) |->
                                 (a * (b + c - a)) \div (2 * Scale)
                                 - (a * (in3_t[i] - c) * (in3_t[i] - c))
                                      \div (2 * (c - b) * Scale)])
                       + in4_n * ((a * (b + c - a)) \div (2 * Scale))
               [] OTHER -> FSum([i \in 1..n |-> IF x[i] = NaN THEN NaN ELSE Abs(x[i])])
    IN  IF L = NaN THEN NaN ELSE L \div n

\* loss(x, typ, a, b, c): rho(...) / x.shape[0]
loss(x, typ, a, b, c) ==
    IF rho(x, typ, a, b, c) = NaN THEN NaN ELSE rho(x, typ, a, b, c) \div Len(x)

\* the Hampel influence function at one norm v
HampelPsi(v, a, b, c) ==
    IF v = NaN THEN NaN
    ELSE IF v < a THEN v
    ELSE IF v < b THEN a
    ELSE IF v < c THEN (a * (c - v)) \div (c - b)
    ELSE 0

\* the influence function applied point by point: entry i is psi of x[i]
psiAligned(x, typ, a, b, c) ==
    CASE typ = "huber" -> [i \in 1..Len(x) |-> FMin(x[i], a)]
      [] typ = "hampel" -> [i \in 1..Len(x) |-> HampelPsi(x[i], a, b, c)]
      [] typ = "square" -> [i \in 1..Len(x) |-> IF x[i] = NaN THEN NaN ELSE 2 * x[i]]
      [] OTHER -> <<Scale>>

\* psi(x, typ, a, b, c).  For hampel the values are concatenated region by
\* region: np.concatenate((in1_t, in2_t, in3_t, in4_t)).reshape((-1, 1)).
\* For abs the result is the scalar 1, which broadcasts like a one-element array.
psi(x, typ, a, b, c) ==
    CASE typ = "huber" -> [i \in 1..Len(x) |-> FMin(x[i], a)]
      [] typ = "hampel" ->
            LET in1_t == SelectSeq(x, LAMBDA v : FLt(v, a))
                in2_n == Len(SelectSeq(x, LAMBDA v : FLe(a, v) /\ FLt(v, b)))
                in3_x == SelectSeq(x, LAMBDA v : FLe(b, v) /\ FLt(v, c))
                in4_n == Len(SelectSeq(x, LAMBDA v : FLe(c, v)))
            IN  in1_t
                \o [i \in 1..in2_n |-> a]
                \o [i \in 1..Len(in3_x) |-> (a * (c - in3_x[i])) \div (c - b)]
                \o [i \in 1..in4_n |-> 0]
      [] typ = "square" -> [i \in 1..Len(x) |-> IF x[i] = NaN THEN NaN ELSE 2 * x[i]]
      [] OTHER -> <<Scale>>

\* x[x == 0] = 10e-6: phi writes into the caller's array
GuardZero(x) == [i \in 1..Len(x) |-> IF x[i] = 0 THEN Eps ELSE x[i]]

\* p / x with numpy broadcasting of (m,1) against (n,1); raised when the
\* shapes cannot be broadcast together
Broadcast(p, x) ==
    IF Len(p) = Len(x) THEN
        [raised |-> "", v |-> [i \in 1..Len(x) |-> FDiv(p[i], x[i])]]
    ELSE IF Len(p) = 1 THEN
        [raised |-> "", v |-> [i \in 1..Len(x) |-> FDiv(p[1], x[i])]]
    ELSE IF Len(x) = 1 THEN
        [raised |-> "", v |-> [i \in 1..Len(p) |-> FDiv(p[i], x[1])]]
    ELSE [raised |-> "ValueError", v |-> <<>>]

\* phi(x, typ, a, b, c): psi(x) / x after the zero guard
phi(x, typ, a, b, c) == Broadcast(psi(GuardZero(x), typ, a, b, c), GuardZero(x))

\* np.dot(Km, w), in Scale^2 units
Dot(Km, w) ==
    [i \in 1..Len(Km) |-> SumSeq([j \in 1..Len(w) |-> Km[i][j] * w[j]])]

\* np.sqrt(t1 + t2 + t3) with t1 = diag(Km), t2 = -2 Km w, t3 = w' Km w; the
\* sum is formed exactly (in Scale^3 units) and rounded once, by the root
Norms(Km, w) ==
    IF AnyNaN(w) THEN [i \in 1..Len(Km) |-> NaN]
    ELSE LET kw == Dot(Km, w)
             t3 == SumSeq([i \in 1..Len(w) |-> w[i] * kw[i]])
             t(i) == Km[i][i] * Scale * Scale - 2 * Scale * kw[i] + t3
         IN  [i \in 1..Len(Km) |-> IF t(i) < 0 THEN NaN ELSE ISqrt(t(i) \div Scale)]

\* np.abs(J - J_old) < J_old * alpha, alpha the fraction num/den
StopTest(J, J_old, alpha) ==
    /\ J # NaN /\ J_old # NaN
    /\ J_old * alpha.num > 0
    /\ Abs(J - J_old) <= (J_old * alpha.num - 1) \div alpha.den

\* irls, lines 119-129: uniform weights, first norms and loss
FirstPass(f) ==
    LET w == [i \in 1..f.n |-> Scale \div f.n]
        norm == Norms(f.Km, w)
    IN  IF RhoRaises(f.type_rho) THEN
            [f EXCEPT !.pc = "raised", !.raised = "UnboundLocalError",
                      !.w = w, !.norm = norm]
        ELSE
            [f EXCEPT !.pc = "loop", !.w = w, !.norm = norm,
                      !.J = loss(norm, f.type_rho, f.a, f.b, f.c),
                      !.losses = <<loss(norm, f.type_rho, f.a, f.b, f.c)>>]

\* irls, lines 131-136: count, J_old and the new weights
UpdateWeights(f) ==
    LET ph == phi(f.norm, f.type_rho, f.a, f.b, f.c)
        sum == FSum(ph.v)
    IN  IF ph.raised # "" THEN
            [f EXCEPT !.pc = "raised", !.raised = ph.raised,
                      !.count = f.count + 1, !.J_old = f.J,
                      !.norm = GuardZero(f.norm)]
        ELSE
            [f EXCEPT !.pc = "norm", !.count = f.count + 1, !.J_old = f.J,
                      !.norm = GuardZero(f.norm),
                      !.w = [i \in 1..Len(ph.v) |-> FDiv(ph.v[i], sum)]]

\* irls, lines 137-144: the new norms and loss; np.dot raises when the
\* weights are not n rows
UpdateNorm(f) ==
    IF Len(f.w) # Len(f.Km) THEN
        [f EXCEPT !.pc = "raised", !.raised = "ValueError"]
    ELSE
        LET norm == Norms(f.Km, f.w)
            J == loss(norm, f.type_rho, f.a, f.b, f.c)
        IN  [f EXCEPT !.pc = "test", !.norm = norm, !.J = J,
                      !.losses = Append(f.losses, J)]

\* irls, lines 145-147 and the loop condition
Test(f) ==
    IF StopTest(f.J, f.J_old, f.alpha) \/ f.count = f.max_it
    THEN [f EXCEPT !.pc = "return", !.stop = 1,
                   !.printed = Append(f.printed, f.count)]
    ELSE [f EXCEPT !.pc = "loop"]

\* irls, line 148
Return(f) == [f EXCEPT !.pc = "done"]

\* the frame of irls(Km, type_rho, n, a, b, c, alpha, max_it) at its entry
IrlsFrame(Km, type_rho, n, a, b, c, alpha, max_it) ==
    [pc |-> "start", Km |-> Km, type_rho |-> type_rho, n |-> n, a |-> a, b |-> b,
     c |-> c, alpha |-> alpha, max_it |-> max_it, w |-> <<>>, norm |-> <<>>,
     J |-> 0, J_old |-> 0, stop |-> 0, count |-> 0,
     losses |-> <<>>, printed |-> <<>>, raised |-> ""]

Step(f) ==
    CASE f.pc = "start" -> FirstPass(f)
      [] f.pc = "loop" -> UpdateWeights(f)
      [] f.pc = "norm" -> UpdateNorm(f)
      [] f.pc = "test" -> Test(f)
      [] f.pc = "return" -> Return(f)

\* irls run from its entry to its return or raise
RECURSIVE Run(_)
Run(f) == IF f.pc \in {"done", "raised"} THEN f ELSE Run(Step(f))

irls(Km, type_rho, n, a, b, c, alpha, max_it) ==
    Run(IrlsFrame(Km, type_rho, n, a, b, c, alpha, max_it))

\* alpha = 10e-8, the tolerance rkde passes (and the default of irls)
Alpha == [num |-> 1, den |-> 10^7]

\* rkde, lines 309-319: the density at X_plot from the weights of the
\* second irls run r2
RkdeDensity(X_data, X_plot, h, r2) ==
    IF r2.pc = "raised" THEN [raised |-> r2.raised, z |-> None, w |-> None]
    ELSE [raised |-> "", w |-> r2.w,
          z |-> [j \in 1..Len(X_plot) |->
                   IF AnyNaN(r2.w) THEN NaN
                   ELSE Dot(rbf_kernel(X_plot, X_data, h), r2.w)[j] \div Scale]]

\* rkde, lines 304-308: the thresholds a, b, c from the norms of the abs run
\* r1 (median, 75th and 95th percentile), then the second irls run
RkdeRobust(X_data, X_plot, h, type_rho, max_it, r1) ==
    IF r1.pc = "raised" THEN [raised |-> r1.raised, z |-> None, w |-> None]
    ELSE RkdeDensity(X_data, X_plot, h,
                     irls(rbf_kernel(X_data, X_data, h), type_rho, Len(X_data),
                          Median(r1.norm), Percentile(r1.norm, 75),
                          Percentile(r1.norm, 95), Alpha, max_it))

\* rkde(X_data, X_plot, h, type_rho, return_model=True); max_it is the
\* iteration cap (100 in rkde) passed to both irls calls
rkde(X_data, X_plot, h, type_rho, max_it) ==
    RkdeRobust(X_data, X_plot, h, type_rho, max_it,
               irls(rbf_kernel(X_data, X_data, h), "abs", Len(X_data),
                    0, 0, 0, Alpha, max_it))

----------------------------------------------------------------------------
(* SpecIrls: irls step by step, on every input *)

\* threshold triples a <= b <= c: zeros (as rkde passes with abs), fixed
\* ones, and those rkde derives from the norms of its abs run
Thresholds(Km) ==
    LET r1 == irls(Km, "abs", Len(Km), 0, 0, 0, Alpha, MaxIt)
    IN  {<<0, 0, 0>>, <<300, 450, 600>>}
        \cup (IF r1.pc = "done" /\ ~AnyNaN(r1.norm)
              THEN {<<Median(r1.norm), Percentile(r1.norm, 75),
                      Percentile(r1.norm, 95)>>}
              ELSE {})

IrlsArgs ==
    UNION {{IrlsFrame(rbf_kernel(X, X, 1), typ, Len(X), th[1], th[2], th[3], al, mx) :
               typ \in {"huber", "hampel"}, th \in Thresholds(rbf_kernel(X, X, 1)),
               al \in {Alpha, [num |-> 1, den |-> 10]}, mx \in 1..MaxIt} :
           X \in Samples}
    \cup
    {IrlsFrame(rbf_kernel(X, X, 1), typ, Len(X), 0, 0, 0, al, mx) :
        X \in Samples, typ \in {"abs", "square"},
        al \in {Alpha, [num |-> 1, den |-> 10]}, mx \in 1..MaxIt}

InitIrls ==
    /\ ir \in IrlsArgs
    /\ self = Idle /\ call = Idle /\ mom = Idle

IrlsFirstPass ==
    /\ ir.pc = "start" /\ ir' = FirstPass(ir) /\ UNCHANGED <<self, call, mom>>

IrlsUpdateWeights ==
    /\ ir.pc = "loop" /\ ir' = UpdateWeights(ir) /\ UNCHANGED <<self, call, mom>>

IrlsUpdateNorm ==
    /\ ir.pc = "norm" /\ ir' = UpdateNorm(ir) /\ UNCHANGED <<self, call, mom>>

IrlsTest ==
    /\ ir.pc = "test" /\ ir' = Test(ir) /\ UNCHANGED <<self, call, mom>>

IrlsReturn ==
    /\ ir.pc = "return" /\ ir' = Return(ir) /\ UNCHANGED <<self, call, mom>>

NextIrls ==
    IrlsFirstPass \/ IrlsUpdateWeights \/ IrlsUpdateNorm \/ IrlsTest \/ IrlsReturn

SpecIrls == InitIrls /\ [][NextIrls]_vars

IrlsDone == ir.pc = "done"

\* C9 as stated: for the loss shapes abs, huber and hampel and max_it >= 1
\* irls ends by returning, after at least one and at most max_it updates,
\* at the first update that passes the tolerance test or at update max_it,
\* with a loss trajectory of one entry per update plus one; it never raises.
C9_ReturnsWithinCap ==
    (ir.pc \in {"done", "raised"} /\ ir.type_rho \in {"abs", "huber", "hampel"})
        => /\ ir.pc = "done"
           /\ 1 <= ir.count /\ ir.count <= ir.max_it
           /\ Len(ir.losses) = ir.count + 1
           /\ StopTest(ir.J, ir.J_old, ir.alpha) \/ ir.count = ir.max_it
           /\ \A u \in 1..(ir.count - 1) :
                 ~StopTest(ir.losses[u + 1], ir.losses[u], ir.alpha)

\* C8: in every weight update, for every loss shape and every point i, the
\* new weight is w_i = phi(norm_i) / sum_j phi(norm_j) with phi(x) = psi(x)/x
\* and psi applied to that same point's norm.
C8_WeightsIndexAligned ==
    (ir.pc = "norm" /\ ir.type_rho \in {"abs", "huber", "hampel"})
        => LET ps == psiAligned(ir.norm, ir.type_rho, ir.a, ir.b, ir.c)
               ph == [i \in 1..ir.n |->
                        FDiv(IF Len(ps) = 1 THEN ps[1] ELSE ps[i], ir.norm[i])]
           IN  ir.w = [i \in 1..ir.n |-> FDiv(ph[i], FSum(ph))]

----------------------------------------------------------------------------
(* spkde (kde_lib.py) *)

\* what solvers.qp can return as sol["x"]: a point of the simplex over the n
\* training points (a vertex or the centre); which one the solver finds is
\* not modelled
QpSolutions(n) ==
    {[i \in 1..n |-> IF i = v THEN Scale ELSE 0] : v \in 1..n}
    \cup {[i \in 1..n |-> Scale \div n]}

\* spkde(X_data, X_plot, h, outliers_fraction, return_model=True) with a the
\* solution of the quadratic program
spkde(X_data, X_plot, h, a) ==
    LET GG == rbf_kernel(X_data, X_plot, h)
    IN  [raised |-> "", a |-> a,
         z |-> [j \in 1..Len(X_plot) |->
                  SumSeq([i \in 1..Len(a) |-> a[i] * GG[i][j]]) \div Scale]]

----------------------------------------------------------------------------
(* Density_model (exp_lib.py) *)

\* the names fit accepts
FitNames ==
    {"kde", "mom-kde", "mom-geom-kde", "rkde-hampel", "rkde-huber", "spkde"}

\* the names a Density_model is built with: those of fit, 'rkde' (the name
\* the constructor documents and estimate_density tests) and an unknown one
Names == FitNames \cup {"rkde", "other"}

\* a variant of the constructor that also sets self.model = None
NewWithModelNone(name, outlier_prop, h) ==
    [algo |-> name, kernel |-> "gaussian", bandwidth |-> h, density |-> None,
     n_block |-> None, outliers_fraction |-> outlier_prop, X_data |-> None,
     has_model |-> TRUE, model |-> None]

\* Density_model.__init__: no attribute "model" is set
New(name, outlier_prop, h) ==
    [algo |-> name, kernel |-> "gaussian", bandwidth |-> h, density |-> None,
     n_block |-> None, outliers_fraction |-> outlier_prop, X_data |-> None,
     has_model |-> FALSE, model |-> None]

\* the samples passed to fit
FitSamples == {s \in SortedSamples : Increasing(s)}

\* the evaluation sets passed to estimate_density
NewPoints == Plots \cup {<<1>>}

\* the block counts passed to fit
BlockCounts == {auto, 1, 2}

\* fit, lines 64-84: self.n_block = k, then density and model from the
\* result r of mom_kde
FitMom(obj, k, r) ==
    IF r.raised # "" THEN
        [obj |-> [obj EXCEPT !.n_block = k], raised |-> r.raised]
    ELSE
        [obj |-> [obj EXCEPT !.n_block = k, !.density = r.z,
                             !.model = r.KDE_K, !.has_model = TRUE],
         raised |-> ""]

\* fit, lines 86-98: self.X_data = X, then density and model from the
\* result r of rkde
FitRkde(obj, X, r) ==
    IF r.raised # "" THEN
        [obj |-> [obj EXCEPT !.X_data = X], raised |-> r.raised]
    ELSE
        [obj |-> [obj EXCEPT !.X_data = X, !.density = r.z,
                             !.model = r.w, !.has_model = TRUE],
         raised |-> ""]

\* fit, lines 100-105: self.X_data = X, then density and model from the
\* result r of spkde
FitSpkde(obj, X, r) ==
    [obj |-> [obj EXCEPT !.X_data = X, !.density = r.z,
                         !.model = r.a, !.has_model = TRUE],
     raised |-> ""]

\* Density_model.fit(X, X_plot, grid, k, norm_mom) with hstd_mom=False:
\* the object after the call and the exception raised, if any
fit(obj, X, X_plot, grid, k, norm_mom, X_shuffle, x_mc, a) ==
    CASE obj.algo = "kde" ->
            [obj |-> [obj EXCEPT !.density = kde(X, X_plot, obj.bandwidth),
                                 !.model = KernelDensity(X, obj.bandwidth),
                                 !.has_model = TRUE],
             raised |-> ""]
      [] obj.algo \in {"mom-kde", "mom-geom-kde"} ->
            FitMom(obj, k,
                   mom_kde(X, X_plot, obj.bandwidth, obj.outliers_fraction, grid, k,
                           IF obj.algo = "mom-kde" THEN "pointwise" ELSE "geometric",
                           IF obj.algo = "mom-kde" THEN norm_mom ELSE TRUE,
                           X_shuffle, x_mc))
      [] obj.algo \in {"rkde-hampel", "rkde-huber"} ->
            FitRkde(obj, X,
                    rkde(X, X_plot, obj.bandwidth,
                         IF obj.algo = "rkde-hampel" THEN "hampel" ELSE "huber",
                         MaxIt))
      [] obj.algo = "spkde" ->
            FitSpkde(obj, X, spkde(X, X_plot, obj.bandwidth, a))
      [] OTHER -> [obj |-> obj, raised |-> "ValueError"]

\* Density_model.estimate_density(X): the object after the call, the
\* exception raised and the lines printed
estimate_density(obj, X) ==
    IF ~obj.has_model THEN
        \* model = self.model: the attribute does not exist
        [obj |-> obj, raised |-> "AttributeError", printed |-> <<>>]
    ELSE IF obj.algo = "kde" THEN
        IF obj.model = None
        THEN [obj |-> obj, raised |-> "AttributeError", printed |-> <<>>]
        ELSE [obj |-> [obj EXCEPT !.density = score_samples(obj.model, X)],
              raised |-> "", printed |-> <<>>]
    ELSE IF obj.algo = "mom-kde" THEN
        IF obj.model = None
        THEN [obj |-> obj, raised |-> "TypeError", printed |-> <<>>]
        ELSE [obj |-> [obj EXCEPT !.density = MedianAxis0(BlockDensities(obj.model, X))],
              raised |-> "", printed |-> <<>>]
    ELSE IF obj.algo = "rkde" THEN
        IF obj.X_data = None \/ obj.model = None
        THEN [obj |-> obj, raised |-> "AttributeError", printed |-> <<>>]
        ELSE LET K_plot == [j \in 1..Len(X) |-> [i \in 1..Len(obj.X_data) |->
                              gaussian_kernel((obj.X_data[i] - X[j]) * (obj.X_data[i] - X[j]),
                                              obj.bandwidth)]]
                 kw == Dot(K_plot, obj.model)
             IN  [obj |-> [obj EXCEPT !.density =
                             [j \in 1..Len(X) |->
                                IF AnyNaN(obj.model) THEN NaN ELSE kw[j] \div Scale]],
                  raised |-> "", printed |-> <<>>]
    ELSE IF obj.algo = "spkde" THEN
        IF obj.X_data = None \/ obj.model = None
        THEN [obj |-> obj, raised |-> "AttributeError", printed |-> <<>>]
        ELSE [obj |-> [obj EXCEPT !.density = spkde(obj.X_data, X, obj.bandwidth,
                                                     obj.model).z],
              raised |-> "", printed |-> <<>>]
    ELSE [obj |-> obj, raised |-> "", printed |-> <<"no algo specified">>]

----------------------------------------------------------------------------
(* Spec: a Density_model is built, fitted at most once and evaluated at new
   points, in any order *)

NoCall == [op |-> "none", raised |-> "", printed |-> <<>>, X |-> None,
           fits |-> 0, fit_X_plot |-> None, fit_density |-> None]

Init ==
    /\ self \in {New(name, f, h) : name \in Names, f \in Fractions, h \in Bandwidths}
    /\ call = NoCall
    /\ mom = Idle /\ ir = Idle

\* the object and the call record after a fit with result r
Fitted(X_plot, r) ==
    /\ self' = r.obj
    /\ call' = [op |-> "fit", raised |-> r.raised, printed |-> <<>>,
                X |-> X_plot, fits |-> 1,
                fit_X_plot |-> IF r.raised = "" THEN X_plot ELSE None,
                fit_density |-> IF r.raised = "" THEN r.obj.density ELSE None]

\* self.fit(X, X_plot, grid, k, norm_mom); an object is fitted at most once
Fit ==
    /\ call.fits = 0
    /\ \E X \in FitSamples, X_plot \in Plots, k \in BlockCounts,
          norm_mom \in BOOLEAN :
       \E grid \in {None, <<X_plot>>} :
       \E X_shuffle \in (IF self.algo \in {"mom-kde", "mom-geom-kde"}
                         THEN Shuffles(X) ELSE {X}) :
       \E x_mc \in (IF self.algo \in {"mom-kde", "mom-geom-kde"} /\ grid = None
                    THEN McPoints(X) ELSE {<<>>}) :
       \E a \in (IF self.algo = "spkde" THEN QpSolutions(Len(X)) ELSE {<<>>}) :
          Fitted(X_plot, fit(self, X, X_plot, grid, k, norm_mom, X_shuffle, x_mc, a))
    /\ UNCHANGED <<mom, ir>>

\* the object and the call record after an estimate_density with result r
Estimated(X, r) ==
    /\ self' = r.obj
    /\ call' = [call EXCEPT !.op = "estimate_density", !.raised = r.raised,
                            !.printed = r.printed, !.X = X]

\* self.estimate_density(X)
EstimateDensity ==
    /\ \E X \in NewPoints : Estimated(X, estimate_density(self, X))
    /\ UNCHANGED <<mom, ir>>

Next == Fit \/ EstimateDensity

Spec == Init /\ [][Next]_vars

\* the last call was an estimate_density that returned normally
Estimate_returned == call.op = "estimate_density" /\ call.raised = ""

\* C1 as stated: for every algorithm name fit accepts, an estimate_density
\* that follows a successful fit returns normally, without printing, and has
\* replaced the stored density by an array with one value per row of its
\* argument.
C1_DensityReplaced ==
    (call.op = "estimate_density" /\ call.fit_density # None
        /\ self.algo \in FitNames)
        => /\ call.raised = ""
           /\ call.printed = <<>>
           /\ Len(self.density) = Len(call.X)

\* C2: estimate_density on an object that was never fitted raises (the
\* attribute self.model does not exist), whatever the algorithm name; it
\* prints nothing and leaves the density unset.
C2_UnfittedRaises ==
    (call.op = "estimate_density" /\ call.fits = 0)
        => /\ call.raised = "AttributeError"
           /\ call.printed = <<>>
           /\ self.density = None

\* witness of C2: estimate_density has raised on an unfitted object whose
\* name has no branch in estimate_density
C2_Witness ==
    /\ call.op = "estimate_density" /\ call.fits = 0
    /\ self.algo = "other"
    /\ call.raised = "AttributeError"

\* C7 as stated: for mom-kde, estimate_density at the points the model was
\* fitted on gives again the density that fit stored.
C7_SamePointsSameDensity ==
    (Estimate_returned /\ self.algo = "mom-kde" /\ call.fit_density # None
        /\ call.X = call.fit_X_plot)
        => self.density = call.fit_density

====
